---- MODULE Spec2Model ----
(***************************************************************************)
(* A model of the rusty-space analytic-geometry library: vectors, the      *)
(* linear-equation solver, lines, line relations and planes.               *)
(*                                                                         *)
(* Numbers.  The library computes in f64.  The model computes in exact     *)
(* rational arithmetic: a number is a pair <<n, d>> in lowest terms with   *)
(* d > 0.  Inputs are small integers, for which the products and sums of   *)
(* the library are exact in f64 as well; quotients are kept exact.         *)
(* A length (a square root) is kept as the record [sq |-> r] that stands   *)
(* for sqrt(r), an angle as the record [cos2 |-> r] that stands for the    *)
(* folded angle acos(sqrt(r)) in [0, PI/2].                                *)
(*                                                                         *)
(* Every library function is a pure function; it is an operator here.  A   *)
(* behaviour picks the arguments in its initial state and applies one      *)
(* operation to them; op names the operation applied, out is its result.   *)
(* A Rust panic is the result [tag |-> "Panic", msg |-> its message].          *)
(***************************************************************************)
EXTENDS Integers, Sequences, FiniteSets, TLC

VARIABLES op, args, out

vars == <<op, args, out>>

\* ------------------------------------------------------------------------
\* Bounds of the explored inputs
\* ------------------------------------------------------------------------

\* coefficients of the equations handed to the solver range over -MaxCoef..MaxCoef
MaxCoef == 2

\* ------------------------------------------------------------------------
\* f64 arithmetic, as exact rationals
\* ------------------------------------------------------------------------

Abs(n) == IF n < 0 THEN 0 - n ELSE n

RECURSIVE GCD(_, _)
GCD(a, b) == IF b = 0 THEN a ELSE GCD(b, a % b)

\* the rational n/d in lowest terms with a positive denominator (d # 0)
Norm(n, d) ==
    LET g == GCD(Abs(n), Abs(d))
        s == IF d < 0 THEN 0 - 1 ELSE 1
    IN  <<(s * n) \div g, (s * d) \div g>>

Rat(n) == <<n, 1>>

Zero == Rat(0)

One == Rat(1)

RAdd(p, q) == Norm(p[1] * q[2] + q[1] * p[2], p[2] * q[2])

RSub(p, q) == Norm(p[1] * q[2] - q[1] * p[2], p[2] * q[2])

RMul(p, q) == Norm(p[1] * q[1], p[2] * q[2])

RNeg(p) == <<0 - p[1], p[2]>>

\* p / q; a division by zero gives the IEEE infinity or NaN, written with a
\* zero denominator (no modelled path computes with such a value)
RDiv(p, q) ==
    IF q[1] = 0
    THEN <<(IF p[1] > 0 THEN 1 ELSE IF p[1] < 0 THEN 0 - 1 ELSE 0), 0>>
    ELSE Norm(p[1] * q[2], p[2] * q[1])

RAbs(p) == <<Abs(p[1]), p[2]>>

\* ------------------------------------------------------------------------
\* src/math/equation.rs
\* ------------------------------------------------------------------------

SolNone == [tag |-> "None"]

SolUndefined == [tag |-> "Undefined"]

SolReal(x) == [tag |-> "Real", val |-> x]

\* Option<(f64, f64)>
NoPair == [tag |-> "None"]

SomePair(x, y) == [tag |-> "Some", x |-> x, y |-> y]

compute_mut_sign(a, b) ==
    IF a = Zero
    THEN IF b = Zero THEN SolUndefined ELSE SolNone
    ELSE SolReal(RDiv(b, a))

\* EquationSolution::compute: solve a*x + b = 0
compute(a, b) ==
    IF a = Zero
    THEN IF b = Zero THEN SolUndefined ELSE SolNone
    ELSE SolReal(RDiv(RMul(Rat(0 - 1), b), a))

\* EquationSolution::compute_other_solution
compute_other_solution(eq, y) ==
    LET sol == compute(eq[1], RAdd(RMul(eq[2], y), eq[3]))
    IN  IF sol.tag = "Real" THEN SomePair(sol.val, y) ELSE NoPair

\* the reduced equation in y and the equation left for x, as chosen by the
\* three branches of compute_multiple
reduce_system(eq1, eq2) ==
    IF eq1[1] = Zero
    THEN [y_coefficient |-> eq1[2], constant |-> eq1[3], later |-> eq2]
    ELSE IF eq2[1] = Zero
    THEN [y_coefficient |-> eq2[2], constant |-> eq2[3], later |-> eq1]
    ELSE LET multiplier == RDiv(eq1[1], eq2[1])
         IN  [y_coefficient |-> RSub(eq1[2], RMul(multiplier, eq2[2])),
              constant |-> RSub(eq1[3], RMul(multiplier, eq2[3])),
              later |-> eq1]

compute_multiple_mut_later(eq1, eq2) ==
    LET r == [reduce_system(eq1, eq2) EXCEPT !.later = eq1]
        sol == compute(r.y_coefficient, r.constant)
    IN  IF sol.tag = "Real"
        THEN compute_other_solution(r.later, sol.val)
        ELSE NoPair

\* EquationSolution::compute_multiple: solve a*x + b*y + c = 0, m*x + n*y + k = 0
compute_multiple(eq1, eq2) ==
    LET r == reduce_system(eq1, eq2)
        sol == compute(r.y_coefficient, r.constant)
    IN  IF sol.tag = "Real"
        THEN compute_other_solution(r.later, sol.val)
        ELSE NoPair

EquationSolution_eq_mut_order(s1, s2) ==
    IF s1.tag = "Undefined" \/ s2.tag = "Undefined" THEN TRUE
    ELSE IF s1.tag = "None" \/ s2.tag = "None" THEN FALSE
    ELSE s1.val = s2.val

\* impl PartialEq<EquationSolution> for EquationSolution (src/math/equation.rs)
EquationSolution_eq(s1, s2) ==
    IF s1.tag = "None" \/ s2.tag = "None" THEN FALSE
    ELSE IF s1.tag = "Undefined" \/ s2.tag = "Undefined" THEN TRUE
    ELSE s1.val = s2.val

\* ------------------------------------------------------------------------
\* src/equation.rs: the second copy of the solver of one equation
\* ------------------------------------------------------------------------

\* EquationSolution::compute (src/equation.rs)
equation_compute(a, b) ==
    IF a = Zero
    THEN IF b = Zero THEN SolUndefined ELSE SolNone
    ELSE SolReal(RDiv(RMul(Rat(0 - 1), b), a))

\* impl PartialEq<EquationSolution> for EquationSolution (src/equation.rs)
equation_eq(s1, s2) ==
    IF s1.tag = "None" \/ s2.tag = "None" THEN FALSE
    ELSE IF s1.tag = "Undefined" \/ s2.tag = "Undefined" THEN TRUE
    ELSE s1.val = s2.val

\* ------------------------------------------------------------------------
\* The solver's behaviours: two equations are chosen, then solved
\* ------------------------------------------------------------------------

Coef == (0 - MaxCoef)..MaxCoef

Coef3 == {<<Rat(a), Rat(b), Rat(c)>> : a \in Coef, b \in Coef, c \in Coef}

InitEquation ==
    /\ op = "start"
    /\ args \in [eq1 : Coef3, eq2 : Coef3]
    /\ out = [tag |-> "Pending"]

\* compute(a, b) on the first two coefficients of eq1
Compute ==
    /\ op = "start"
    /\ op' = "compute"
    /\ out' = compute(args.eq1[1], args.eq1[2])
    /\ UNCHANGED args

ComputeMultiple ==
    /\ op = "start"
    /\ op' = "compute_multiple"
    /\ out' = compute_multiple(args.eq1, args.eq2)
    /\ UNCHANGED args

NextEquation == Compute \/ ComputeMultiple

SpecEquation == InitEquation /\ [][NextEquation]_vars

\* ------------------------------------------------------------------------
\* Claims about the solver
\* ------------------------------------------------------------------------

\* C1: compute(a, b) is None exactly when a = 0 and b # 0, Undefined exactly
\* when a = 0 and b = 0, and otherwise Real(x) with a*x + b = 0.
C1_SolveLinear ==
    op = "compute" =>
        LET a == args.eq1[1]
            b == args.eq1[2]
        IN  /\ (out.tag = "None") <=> (a = Zero /\ b # Zero)
            /\ (out.tag = "Undefined") <=> (a = Zero /\ b = Zero)
            /\ (out.tag = "Real") <=> (a # Zero)
            /\ out.tag = "Real" => RAdd(RMul(a, out.val), b) = Zero

\* a root that is not an integer was computed for a non-zero constant
C1_Witness ==
    /\ op = "compute"
    /\ out.tag = "Real"
    /\ out.val[2] # 1

\* a*x + b*y + c
Eval2(eq, x, y) == RAdd(RAdd(RMul(eq[1], x), RMul(eq[2], y)), eq[3])

\* a*n - b*m
Det2(eq1, eq2) == RSub(RMul(eq1[1], eq2[2]), RMul(eq1[2], eq2[1]))

\* C2: compute_multiple returns Some((x, y)) exactly when a*n - b*m # 0, and
\* then (x, y) satisfies both equations; otherwise None.
C2_SolveSystem ==
    op = "compute_multiple" =>
        /\ (out.tag = "Some") <=> (Det2(args.eq1, args.eq2) # Zero)
        /\ out.tag = "Some" =>
              /\ Eval2(args.eq1, out.x, out.y) = Zero
              /\ Eval2(args.eq2, out.x, out.y) = Zero

\* a system solved in the branch a = 0, with the x of the second equation
C2_Witness ==
    /\ op = "compute_multiple"
    /\ args.eq1[1] = Zero
    /\ out.tag = "Some"
    /\ out.x # Zero
    /\ out.y # Zero

\* ------------------------------------------------------------------------
\* src/math/ratio.rs
\* ------------------------------------------------------------------------

RatioInvalid == [tag |-> "Invalid"]

RatioZeros == [tag |-> "Zeros"]

RatioReal(x) == [tag |-> "Real", val |-> x]

\* Ratio::compute
Ratio_compute(x, y) ==
    IF x = Zero /\ y = Zero THEN RatioZeros
    ELSE IF x = Zero \/ y = Zero THEN RatioInvalid
    ELSE RatioReal(RDiv(x, y))

Ratio_eq_mut_zeros(r1, r2) ==
    IF r1.tag = "Zeros" \/ r2.tag = "Zeros" THEN TRUE
    ELSE IF r1.tag = "Invalid" \/ r2.tag = "Invalid" THEN FALSE
    ELSE r1.val = r2.val

\* impl PartialEq for Ratio
Ratio_eq(r1, r2) ==
    IF r1.tag = "Invalid" \/ r2.tag = "Invalid" THEN FALSE
    ELSE IF r1.tag = "Zeros" \/ r2.tag = "Zeros" THEN TRUE
    ELSE r1.val = r2.val

\* ------------------------------------------------------------------------
\* src/vector.rs
\* ------------------------------------------------------------------------

Vector(x, y, z) == <<x, y, z>>

ZeroVector == Vector(Zero, Zero, Zero)

\* impl Add for Vector
VAdd(u, v) == [i \in 1..3 |-> RAdd(u[i], v[i])]

\* impl Sub for Vector
VSub(u, v) == [i \in 1..3 |-> RSub(u[i], v[i])]

\* impl Mul for Vector: the scalaric product
Dot(u, v) ==
    LET p == [i \in 1..3 |-> RMul(u[i], v[i])]
    IN  RAdd(RAdd(p[1], p[2]), p[3])

\* impl Mul<Vector> for f64
Scale(k, v) == [i \in 1..3 |-> RMul(k, v[i])]

\* Vector::length: sqrt(v * v), kept as the number under the root
length(v) == [sq |-> Dot(v, v)]

vectoric_product_mut_order(u, v) ==
    [i \in 1..3 |->
        LET j == (i % 3) + 1
            k == ((i + 1) % 3) + 1
        IN  IF i = 2
            THEN RSub(RMul(u[k], v[j]), RMul(u[j], v[k]))
            ELSE RSub(RMul(u[j], v[k]), RMul(u[k], v[j]))]

\* Vector::vectoric_product
\* component i is u[j]*v[k] - u[k]*v[j] for (i, j, k) a rotation of (1, 2, 3)
vectoric_product(u, v) ==
    [i \in 1..3 |->
        LET j == (i % 3) + 1
            k == ((i + 1) % 3) + 1
        IN  RSub(RMul(u[j], v[k]), RMul(u[k], v[j]))]

DivErr == [tag |-> "Err"]

DivOk(r) == [tag |-> "Ok", val |-> r]

\* the first Real ratio, if any
first_real(ratio) ==
    IF \E i \in 1..3 : ratio[i].tag = "Real"
    THEN DivOk(ratio[CHOOSE i \in 1..3 :
                        /\ ratio[i].tag = "Real"
                        /\ \A j \in 1..(i - 1) : ratio[j].tag # "Real"].val)
    ELSE DivErr

Vector_div_mut_pairs(u, v) ==
    LET ratio == [i \in 1..3 |-> Ratio_compute(u[i], v[i])]
    IN  IF ~(\A pr \in {<<1, 2>>, <<1, 3>>} : Ratio_eq(ratio[pr[1]], ratio[pr[2]]))
        THEN DivErr
        ELSE first_real(ratio)

\* impl Div for Vector
Vector_div(u, v) ==
    LET ratio == [i \in 1..3 |-> Ratio_compute(u[i], v[i])]
    IN  IF ~(\A pr \in {<<1, 2>>, <<1, 3>>, <<2, 3>>} : Ratio_eq(ratio[pr[1]], ratio[pr[2]]))
        THEN DivErr
        ELSE first_real(ratio)

\* Vector::is_lindep
is_lindep(u, v) == Vector_div(u, v).tag = "Ok"

\* Vector::angle_between: acos(u*v / (|u|*|v|)), kept as the sign and the
\* square of the cosine
Vector_angle_between(u, v) ==
    LET d == Dot(u, v)
    IN  [neg |-> d[1] < 0,
         cos2 |-> RDiv(RMul(d, d), RMul(Dot(u, u), Dot(v, v)))]

\* ------------------------------------------------------------------------
\* Behaviours of the vector operations: two vectors are chosen, then one
\* operation is applied to them
\* ------------------------------------------------------------------------

\* components of the vectors range over -MaxVec..MaxVec
MaxVec == 2

VecCoord == (0 - MaxVec)..MaxVec

Vecs == {Vector(Rat(x), Rat(y), Rat(z)) : x \in VecCoord, y \in VecCoord, z \in VecCoord}

InitVector ==
    /\ op = "start"
    /\ args \in [u : Vecs, v : Vecs]
    /\ out = [tag |-> "Pending"]

IsLindep ==
    /\ op = "start"
    /\ op' = "is_lindep"
    /\ out' = [tag |-> "Bool", val |-> is_lindep(args.u, args.v)]
    /\ UNCHANGED args

VectorDiv ==
    /\ op = "start"
    /\ op' = "div"
    /\ out' = Vector_div(args.u, args.v)
    /\ UNCHANGED args

NextVector == IsLindep \/ VectorDiv

SpecVector == InitVector /\ [][NextVector]_vars

\* u = k * v for some scalar k (k is 0, or the quotient of a component pair)
ScalarMultiple(u, v) ==
    \E k \in {Zero} \cup {RDiv(u[i], v[i]) : i \in {j \in 1..3 : v[j] # Zero}} :
        u = Scale(k, v)

\* one of u, v is a scalar multiple of the other
Dependent(u, v) == ScalarMultiple(u, v) \/ ScalarMultiple(v, u)

\* C3: is_lindep(u, v) is true if and only if one of u, v is a scalar
\* multiple of the other, the zero vector being dependent with every vector.
C3_LindepIffMultiple ==
    op = "is_lindep" => (out.val <=> Dependent(args.u, args.v))

\* ------------------------------------------------------------------------
\* src/plain.rs: construction and point queries (used by the line relations)
\* ------------------------------------------------------------------------

\* a panic with its message
Panic(msg) == [tag |-> "Panic", msg |-> msg]

Plain(plumb, constant_d) == [tag |-> "Plain", plumb |-> plumb, constant_d |-> constant_d]

Plain_new_mut_nocheck(origin, dir1, dir2) ==
    LET plumb == vectoric_product(dir1, dir2)
    IN  Plain(plumb, RMul(Rat(0 - 1), Dot(plumb, origin)))

\* Plain::new
Plain_new(origin, dir1, dir2) ==
    IF is_lindep(dir1, dir2)
    THEN Panic("Two linearly dependent vectors cannot form a plane")
    ELSE LET plumb == vectoric_product(dir1, dir2)
         IN  Plain(plumb, RMul(Rat(0 - 1), Dot(plumb, origin)))

\* Plain::compute
Plain_compute(plain, point) == RAdd(Dot(plain.plumb, point), plain.constant_d)

\* Plain::distance_from: |compute(point)| / plumb.length(), kept as the
\* number under the root
distance_from(plain, point) ==
    LET c == RAbs(Plain_compute(plain, point))
    IN  [sq |-> RDiv(RMul(c, c), length(plain.plumb).sq)]

\* Plain::contains_point
contains_point(plain, point) == Plain_compute(plain, point) = Zero

\* ------------------------------------------------------------------------
\* src/line.rs
\* ------------------------------------------------------------------------

Line(point, direction) == [point |-> point, direction |-> direction]

distance_from_point_mut_sum(line, other_point) ==
    LET coefficient == Dot(line.direction, line.direction)
        sum == Dot(line.direction, VSub(other_point, line.point))
        solution == compute(coefficient, sum)
    IN  IF solution.tag = "Real"
        THEN LET differece == VAdd(VSub(line.point, other_point),
                                   Scale(solution.val, line.direction))
             IN  [tag |-> "Dist", sq |-> length(differece).sq]
        ELSE Panic("This should never happen")

\* Line::distance_from_point: the length of point - other + t*direction, or
\* a panic when the inner equation has no real root
distance_from_point(line, other_point) ==
    LET coefficient == Dot(line.direction, line.direction)
        sum == Dot(line.direction, VSub(line.point, other_point))
        solution == compute(coefficient, sum)
    IN  IF solution.tag = "Real"
        THEN LET differece == VAdd(VSub(line.point, other_point),
                                   Scale(solution.val, line.direction))
             IN  [tag |-> "Dist", sq |-> length(differece).sq]
        ELSE Panic("This should never happen")

\* Line::is_on_line
is_on_line(line, other_point) ==
    LET d == distance_from_point(line, other_point)
    IN  IF d.tag = "Panic" THEN d
        ELSE [tag |-> "Bool", val |-> d.sq = Zero]

NoVector == [tag |-> "None"]

SomeVector(v) == [tag |-> "Some", val |-> v]

\* the three scalar equations of t*u1 - s*u2 = p2 - p1 as Line::intersection
\* builds them
intersection_eqs(line1, line2) ==
    LET const == VSub(line2.point, line1.point)
    IN  [i \in 1..3 |-> <<line1.direction[i], RNeg(line2.direction[i]), const[i]>>]

\* the system Line::intersection hands to compute_multiple
intersection_system(line1, line2) ==
    LET eqs == intersection_eqs(line1, line2)
        zeros == <<Zero, Zero, Zero>>
        pick == IF eqs[1] = zeros THEN <<3, 2>>
                ELSE IF eqs[2] = zeros THEN <<1, 3>>
                ELSE <<1, 2>>
    IN  compute_multiple(eqs[pick[1]], eqs[pick[2]])

Line_intersection_mut_unchecked(line1, line2) ==
    LET result == intersection_system(line1, line2)
    IN  IF result.tag = "Some"
        THEN SomeVector(VAdd(line1.point, Scale(result.x, line1.direction)))
        ELSE NoVector

\* Line::intersection
Line_intersection(line1, line2) ==
    LET result == intersection_system(line1, line2)
    IN  IF result.tag = "Some"
        THEN LET intersection_t == VAdd(line1.point, Scale(result.x, line1.direction))
                 intersection_s == VAdd(line2.point, Scale(result.y, line2.direction))
             IN  IF intersection_t = intersection_s
                 THEN SomeVector(intersection_t)
                 ELSE NoVector
        ELSE NoVector

\* Line::angle_between: the angle of the directions folded into [0, PI/2]
Line_angle_between(line1, line2) ==
    [cos2 |-> Vector_angle_between(line1.direction, line2.direction).cos2]

\* ------------------------------------------------------------------------
\* src/line/relations.rs
\* ------------------------------------------------------------------------

Unite == [tag |-> "Unite"]

Parallel(distance) == [tag |-> "Parallel", distance |-> distance]

Intersect(point, angle) == [tag |-> "Intersect", point |-> point, angle |-> angle]

Foreign(distance, angle) == [tag |-> "Foreign", distance |-> distance, angle |-> angle]

\* the branch of LineRelations::of for linearly independent directions
relation_independent(line1, line2) ==
    LET angle == Line_angle_between(line1, line2)
        intersection == Line_intersection(line1, line2)
    IN  IF intersection.tag = "Some"
        THEN Intersect(intersection.val, angle)
        ELSE LET common_plain == Plain_new(line1.point, line1.direction, line2.direction)
             IN  IF common_plain.tag = "Panic" THEN common_plain
                 ELSE Foreign([sq |-> distance_from(common_plain, line2.point).sq], angle)

LineRelations_of_mut_point(line1, line2) ==
    IF is_lindep(line1.direction, line2.direction)
    THEN LET distance == distance_from_point(line1, line1.point)
         IN  IF distance.tag = "Panic" THEN distance
             ELSE IF distance.sq = Zero THEN Unite
             ELSE Parallel([sq |-> distance.sq])
    ELSE relation_independent(line1, line2)

\* LineRelations::of
LineRelations_of(line1, line2) ==
    IF is_lindep(line1.direction, line2.direction)
    THEN LET distance == distance_from_point(line1, line2.point)
         IN  IF distance.tag = "Panic" THEN distance
             ELSE IF distance.sq = Zero THEN Unite
             ELSE Parallel([sq |-> distance.sq])
    ELSE relation_independent(line1, line2)

\* ------------------------------------------------------------------------
\* src/plain.rs: the other constructors and the queries on lines and planes
\* ------------------------------------------------------------------------

\* Plain::from_two_lines
from_two_lines(line1, line2) ==
    LET relation == LineRelations_of(line1, line2)
    IN  IF relation.tag = "Parallel"
        THEN Plain_new(line1.point, line1.direction, VSub(line2.point, line1.point))
        ELSE IF relation.tag = "Intersect"
        THEN Plain_new(relation.point, line1.direction, line2.direction)
        ELSE IF relation.tag = "Unite"
        THEN Panic("Lines unite and form infinite shared planes!")
        ELSE IF relation.tag = "Foreign"
        THEN Panic("Forign lines have no common plane!")
        ELSE relation

\* Plain::from_three_points
from_three_points(point1, point2, point3) ==
    Plain_new(point1, VSub(point2, point1), VSub(point3, point1))

\* Plain::contains_line
contains_line(plain, line) ==
    contains_point(plain, line.point) /\ Dot(line.direction, plain.plumb) = Zero

\* Plain::distance_between: |d1 - d2 * (plumb1 / plumb2)| / plumb1.length(),
\* kept as the number under the root
distance_between(plain1, plain2) ==
    IF ~is_lindep(plain1.plumb, plain2.plumb)
    THEN Panic("The two planes must be parallel or uniting to calculate the distance between them")
    ELSE LET plumb_ratio == Vector_div(plain1.plumb, plain2.plumb).val
             d2 == RMul(plain2.constant_d, plumb_ratio)
             difference == RAbs(RSub(plain1.constant_d, d2))
         IN  [tag |-> "Dist",
              sq |-> RDiv(RMul(difference, difference), length(plain1.plumb).sq)]

\* Plain::angle_with_vector: PI/2 - angle_between(plumb, vector); the sine of
\* the result is the cosine of the angle between plumb and vector, so the
\* result is kept as its sign and the square of its sine
angle_with_vector(plain, vector) ==
    LET a == Vector_angle_between(plain.plumb, vector)
    IN  [neg |-> a.neg, sin2 |-> a.cos2]

\* Plain::angle_with_line: the absolute value of angle_with_vector
angle_with_line(plain, line) ==
    [sin2 |-> angle_with_vector(plain, line.direction).sin2]

\* Plain::angle_between: the angle of the plumbs folded into [0, PI/2]
Plain_angle_between(plain1, plain2) ==
    [cos2 |-> Vector_angle_between(plain1.plumb, plain2.plumb).cos2]

\* ------------------------------------------------------------------------
\* src/plain/line_relations.rs
\* ------------------------------------------------------------------------

Containing == [tag |-> "Containing"]

LineIntersect(point, angle) == [tag |-> "Intersect", point |-> point, angle |-> angle]

LineParallel(distance) == [tag |-> "Parallel", distance |-> distance]

relation_with_line_mut_constant(plain, line) ==
    LET coefficient == Dot(plain.plumb, line.direction)
        constant == Dot(plain.plumb, line.point)
        solution == compute(coefficient, constant)
    IN  IF solution.tag = "Real"
        THEN LineIntersect(VAdd(line.point, Scale(solution.val, line.direction)),
                           angle_with_line(plain, line))
        ELSE IF solution.tag = "None"
        THEN LineParallel(distance_from(plain, line.point))
        ELSE Containing

\* Plain::relation_with_line
relation_with_line(plain, line) ==
    LET coefficient == Dot(plain.plumb, line.direction)
        constant == RAdd(Dot(plain.plumb, line.point), plain.constant_d)
        solution == compute(coefficient, constant)
    IN  IF solution.tag = "Real"
        THEN LineIntersect(VAdd(line.point, Scale(solution.val, line.direction)),
                           angle_with_line(plain, line))
        ELSE IF solution.tag = "None"
        THEN LineParallel(distance_from(plain, line.point))
        ELSE Containing

\* ------------------------------------------------------------------------
\* src/plain/relations.rs
\* ------------------------------------------------------------------------

PlainUnite == [tag |-> "Unite"]

PlainParallel(distance) == [tag |-> "Parallel", distance |-> distance]

PlainIntersect(line, angle) == [tag |-> "Intersect", line |-> line, angle |-> angle]

\* PlainRelations::of; the line of the Intersect result is the fixed line
\* through (0,0,0) with direction (1,0,0)
PlainRelations_of(plain1, plain2) ==
    IF ~is_lindep(plain1.plumb, plain2.plumb)
    THEN PlainIntersect(Line(ZeroVector, Vector(One, Zero, Zero)),
                        Plain_angle_between(plain1, plain2))
    ELSE IF plain1.constant_d = plain2.constant_d
    THEN PlainUnite
    ELSE PlainParallel([sq |-> distance_between(plain1, plain2).sq])

\* ------------------------------------------------------------------------
\* Behaviours of the line operations: two lines with non-zero directions
\* are chosen, then one operation is applied to them
\* ------------------------------------------------------------------------

\* components of directions range over -1..MaxDir
MaxDir == 1

\* components of points range over 0..MaxPt
MaxPt == 1

DirCoord == (0 - 1)..MaxDir

PtCoord == 0..MaxPt

Dirs == {Vector(Rat(x), Rat(y), Rat(z)) : x \in DirCoord, y \in DirCoord, z \in DirCoord}

Points == {Vector(Rat(x), Rat(y), Rat(z)) : x \in PtCoord, y \in PtCoord, z \in PtCoord}

\* the points of the diagonal x = y = z
Origins == {p \in Points : p[1] = p[2] /\ p[2] = p[3]}

\* Line::new on a non-zero direction
Lines(points) == {Line(p, d) : p \in points, d \in Dirs \ {ZeroVector}}

\* the first line passes through a point of the diagonal, the second through
\* any point
InitLine ==
    /\ op = "start"
    /\ args \in [kind : {"lines"}, line1 : Lines(Origins), line2 : Lines(Points)]
    /\ out = [tag |-> "Pending"]

Intersection ==
    /\ op = "start"
    /\ args.kind = "lines"
    /\ op' = "intersection"
    /\ out' = Line_intersection(args.line1, args.line2)
    /\ UNCHANGED args

LineRelationsOf ==
    /\ op = "start"
    /\ args.kind = "lines"
    /\ op' = "of"
    /\ out' = LineRelations_of(args.line1, args.line2)
    /\ UNCHANGED args

NextLine == Intersection \/ LineRelationsOf

SpecLine == InitLine /\ [][NextLine]_vars

\* ------------------------------------------------------------------------
\* Claims about lines and their relations
\* ------------------------------------------------------------------------

\* the point q lies on the line: q - point is a multiple of the direction
OnLine(line, q) == ScalarMultiple(VSub(q, line.point), line.direction)

\* for independent directions u1, u2: the point of line1 nearest to line2,
\* point1 + t*u1 with t = ((p2 - p1) x u2) . (u1 x u2) / |u1 x u2|^2
MeetPoint(line1, line2) ==
    LET n == vectoric_product(line1.direction, line2.direction)
        w == vectoric_product(VSub(line2.point, line1.point), line2.direction)
    IN  VAdd(line1.point, Scale(RDiv(Dot(w, n), Dot(n, n)), line1.direction))

\* two lines with independent directions have a common point
HaveCommonPoint(line1, line2) ==
    LET q == MeetPoint(line1, line2)
    IN  OnLine(line1, q) /\ OnLine(line2, q)

\* C4: for two lines with independent directions and a common point,
\* Line::intersection returns Some of that point and LineRelations::of
\* returns Intersect with it; LineRelations::of returns Foreign only for
\* lines that share no point.
C4_IntersectingLinesFound ==
    LET l1 == args.line1
        l2 == args.line2
        meet == ~Dependent(l1.direction, l2.direction) /\ HaveCommonPoint(l1, l2)
    IN  /\ (op = "intersection" /\ meet) => out = SomeVector(MeetPoint(l1, l2))
        /\ (op = "of" /\ meet) =>
              (out.tag = "Intersect" /\ out.point = MeetPoint(l1, l2))
        /\ (op = "of" /\ out.tag = "Foreign") => ~meet

\* C5: for two lines with non-zero, linearly dependent directions,
\* LineRelations::of returns Unite when line2.point lies on line1 and
\* Parallel(d) with d # 0 otherwise, never Intersect or Foreign.
C5_DependentDirections ==
    (op = "of" /\ Dependent(args.line1.direction, args.line2.direction)) =>
        IF OnLine(args.line1, args.line2.point)
        THEN out = Unite
        ELSE out.tag = "Parallel" /\ out.distance.sq # Zero

\* Unite for line2 = (point + k*direction, c*direction) with k # 0 and c # 1
C5_Witness ==
    /\ op = "of"
    /\ out = Unite
    /\ args.line2.point # args.line1.point
    /\ args.line2.direction # args.line1.direction

\* C6: LineRelations::of(l1, l2) and LineRelations::of(l2, l1) return the
\* same variant, and the same point when the variant is Intersect.
C6_OrderIndependent ==
    op = "of" =>
        LET swapped == LineRelations_of(args.line2, args.line1)
        IN  /\ swapped.tag = out.tag
            /\ out.tag = "Intersect" => swapped.point = out.point

\* an Intersect result for two lines whose directions differ in x
C6_Witness ==
    /\ op = "of"
    /\ out.tag = "Intersect"
    /\ args.line1.direction[1] # args.line2.direction[1]

\* ------------------------------------------------------------------------
\* Behaviours of the plane operations: the arguments of a constructor
\* (three vectors, or two lines) or two constructed planes are chosen, then
\* one operation is applied to them
\* ------------------------------------------------------------------------

InitThree ==
    /\ op = "start"
    /\ args \in [kind : {"three"}, v1 : Points, v2 : Dirs, v3 : Dirs]
    /\ out = [tag |-> "Pending"]

\* the planes Plain::new returns for an origin of the diagonal and two
\* directions
PlainsNew ==
    {pl \in {Plain_new(o, d1, d2) : o \in Origins, d1 \in Dirs, d2 \in Dirs} :
        pl.tag = "Plain"}

\* the corners of the unit cube
Corners == {Vector(Rat(x), Rat(y), Rat(z)) : x \in 0..1, y \in 0..1, z \in 0..1}

\* the planes Plain::from_three_points returns for three corners of the unit
\* cube
PlainsThree ==
    {pl \in {from_three_points(p1, p2, p3) : p1 \in Corners, p2 \in Corners, p3 \in Corners} :
        pl.tag = "Plain"}

InitPlains ==
    /\ op = "start"
    /\ args \in [kind : {"plains"}, plain1 : PlainsNew, plain2 : PlainsThree]
    /\ out = [tag |-> "Pending"]

InitPlain == InitThree \/ InitLine \/ InitPlains

PlainNew ==
    /\ op = "start"
    /\ args.kind = "three"
    /\ op' = "new"
    /\ out' = Plain_new(args.v1, args.v2, args.v3)
    /\ UNCHANGED args

FromThreePoints ==
    /\ op = "start"
    /\ args.kind = "three"
    /\ op' = "from_three_points"
    /\ out' = from_three_points(args.v1, args.v2, args.v3)
    /\ UNCHANGED args

FromTwoLines ==
    /\ op = "start"
    /\ args.kind = "lines"
    /\ op' = "from_two_lines"
    /\ out' = from_two_lines(args.line1, args.line2)
    /\ UNCHANGED args

DistanceBetween ==
    /\ op = "start"
    /\ args.kind = "plains"
    /\ op' = "distance_between"
    /\ out' = distance_between(args.plain1, args.plain2)
    /\ UNCHANGED args

NextPlain == PlainNew \/ FromThreePoints \/ FromTwoLines \/ DistanceBetween

SpecPlain == InitPlain /\ [][NextPlain]_vars

\* ------------------------------------------------------------------------
\* Claims about plane construction
\* ------------------------------------------------------------------------

\* C7: every Plain returned by Plain::new, Plain::from_three_points or
\* Plain::from_two_lines has a non-zero plumb vector.
C7_PlumbNonZero ==
    (op \in {"new", "from_three_points", "from_two_lines"} /\ out.tag = "Plain") =>
        out.plumb # ZeroVector

\* three points lie on a common line
Collinear(p1, p2, p3) == Dependent(VSub(p2, p1), VSub(p3, p1))

\* C8: Plain::from_three_points fails for every triple of points on a common
\* line, and the plane it returns for any other triple contains the three
\* points.
C8_ThreePoints ==
    op = "from_three_points" =>
        /\ Collinear(args.v1, args.v2, args.v3) => out.tag = "Panic"
        /\ out.tag = "Plain" =>
              /\ contains_point(out, args.v1)
              /\ contains_point(out, args.v2)
              /\ contains_point(out, args.v3)

\* the position of two lines with non-zero directions: they hold the same
\* points, are parallel without a common point, meet in exactly one point,
\* or are skew
Position(line1, line2) ==
    IF Dependent(line1.direction, line2.direction)
    THEN IF OnLine(line1, line2.point) THEN "uniting" ELSE "parallel"
    ELSE IF HaveCommonPoint(line1, line2) THEN "meeting" ELSE "skew"

\* the precondition of the operation applied does not hold, in a way the
\* operation detects
DetectedFailure ==
    \/ /\ op \in {"new", "from_three_points"}
       /\ LET d1 == IF op = "new" THEN args.v2 ELSE VSub(args.v2, args.v1)
              d2 == IF op = "new" THEN args.v3 ELSE VSub(args.v3, args.v1)
          IN  d1 # ZeroVector /\ d2 # ZeroVector /\ Dependent(d1, d2)
    \/ /\ op = "from_two_lines"
       /\ Position(args.line1, args.line2) \in {"uniting", "skew"}
    \/ /\ op = "distance_between"
       /\ ~Dependent(args.plain1.plumb, args.plain2.plumb)

\* C9 as stated: a construction precondition failure is reported as an error
\* value of the result, not as a panic.
C9_FailureIsErrorValue == DetectedFailure => out.tag # "Panic"

\* C9 as amended: a construction precondition failure the operation detects
\* (two non-zero dependent directions, three collinear points of which the
\* first differs from the other two, uniting or skew lines, planes with
\* independent plumbs) is reported as a panic.
C9_FailureIsPanic == DetectedFailure => out.tag = "Panic"

\* distance_between panicked on two planes that intersect
C9_Witness ==
    /\ op = "distance_between"
    /\ args.plain1.plumb # ZeroVector
    /\ out.tag = "Panic"

\* C10: for two lines that are parallel but not coincident, or that meet in
\* exactly one point, Plain::from_two_lines returns a plane containing both
\* lines; it fails only for coincident or skew lines.
C10_PlaneOfTwoLines ==
    op = "from_two_lines" =>
        LET position == Position(args.line1, args.line2)
        IN  /\ position \in {"parallel", "meeting"} =>
                  /\ out.tag = "Plain"
                  /\ contains_line(out, args.line1)
                  /\ contains_line(out, args.line2)
            /\ out.tag = "Panic" =>
                  /\ position \in {"uniting", "skew"}
                  /\ out.msg # "Two linearly dependent vectors cannot form a plane"

\* ------------------------------------------------------------------------
\* Behaviours of the relation queries on planes: two constructed planes, or
\* a constructed plane and a line, are chosen, then the relation is computed
\* ------------------------------------------------------------------------

\* Line::new on any point and direction of the bounds
AllLines == {Line(p, d) : p \in Points, d \in Dirs}

InitPlainLine ==
    /\ op = "start"
    /\ args \in [kind : {"plainline"}, plain : PlainsThree, line : AllLines]
    /\ out = [tag |-> "Pending"]

InitRelations == InitPlains \/ InitPlainLine

PlainRelationsOf ==
    /\ op = "start"
    /\ args.kind = "plains"
    /\ op' = "plains_of"
    /\ out' = PlainRelations_of(args.plain1, args.plain2)
    /\ UNCHANGED args

RelationWithLine ==
    /\ op = "start"
    /\ args.kind = "plainline"
    /\ op' = "relation_with_line"
    /\ out' = relation_with_line(args.plain, args.line)
    /\ UNCHANGED args

NextRelations == PlainRelationsOf \/ RelationWithLine

SpecRelations == InitRelations /\ [][NextRelations]_vars

\* ------------------------------------------------------------------------
\* Claims about the relations of planes
\* ------------------------------------------------------------------------

\* the coefficients (a, b, c, d) of the plane equation a*x + b*y + c*z + d = 0
Coefficients(plain) ==
    <<plain.plumb[1], plain.plumb[2], plain.plumb[3], plain.constant_d>>

\* the equations with the coefficients c1 and c2 have the same solutions:
\* the coefficients are equal, or one is the other times a non-zero scalar
SameSolutions(c1, c2) ==
    \/ \A i \in 1..4 : c1[i] = c2[i]
    \/ \E k \in {RDiv(c1[i], c2[i]) : i \in {j \in 1..4 : c2[j] # Zero}} :
          /\ k # Zero
          /\ \A i \in 1..4 : c1[i] = RMul(k, c2[i])

\* the two planes contain exactly the same points
SamePoints(plain1, plain2) ==
    SameSolutions(Coefficients(plain1), Coefficients(plain2))

\* the equation of the plane has no solution
NoPoints(plain) == plain.plumb = ZeroVector /\ plain.constant_d # Zero

\* the two equations have a common solution
CommonPoint(plain1, plain2) ==
    /\ ~NoPoints(plain1)
    /\ ~NoPoints(plain2)
    /\ \/ ~Dependent(plain1.plumb, plain2.plumb)
       \/ plain1.plumb = ZeroVector
       \/ plain2.plumb = ZeroVector
       \/ SamePoints(plain1, plain2)

\* C11: PlainRelations::of returns Unite if and only if the two planes
\* contain exactly the same points, and Parallel(d) only for planes without
\* a common point, with d # 0, whatever the scalar factor between the plumbs.
C11_UniteIffSamePoints ==
    op = "plains_of" =>
        /\ (out.tag = "Unite") <=> SamePoints(args.plain1, args.plain2)
        /\ out.tag = "Parallel" =>
              /\ ~CommonPoint(args.plain1, args.plain2)
              /\ out.distance.sq # Zero

\* C12: for two planes with independent plumbs the line of the Intersect
\* result of PlainRelations::of is contained in both planes, and its points
\* satisfy both plane equations.
C12_IntersectionLine ==
    (op = "plains_of" /\ ~Dependent(args.plain1.plumb, args.plain2.plumb)) =>
        /\ out.tag = "Intersect"
        /\ \A plain \in {args.plain1, args.plain2} :
              /\ contains_line(plain, out.line)
              /\ \A t \in (0 - 1)..1 :
                    contains_point(plain, VAdd(out.line.point,
                                               Scale(Rat(t), out.line.direction)))

\* C13: Plain::relation_with_line returns Containing exactly when
\* contains_line is true, Parallel(d) exactly when the direction of the line
\* is orthogonal to plumb and line.point is not on the plane, and then d # 0,
\* and otherwise Intersect(p, _) with p on the line and on the plane.
C13_RelationWithLine ==
    op = "relation_with_line" =>
        LET plain == args.plain
            line == args.line
            orthogonal == Dot(line.direction, plain.plumb) = Zero
        IN  /\ (out.tag = "Containing") <=> contains_line(plain, line)
            /\ (out.tag = "Parallel") <=>
                  (orthogonal /\ ~contains_point(plain, line.point))
            /\ out.tag = "Parallel" => out.distance.sq # Zero
            /\ out.tag \notin {"Containing", "Parallel"} =>
                  /\ out.tag = "Intersect"
                  /\ OnLine(line, out.point)
                  /\ contains_point(plain, out.point)

\* a line met a plane that misses the origin in a point other than line.point
C13_Witness ==
    /\ op = "relation_with_line"
    /\ out.tag = "Intersect"
    /\ args.plain.constant_d # Zero
    /\ out.point # args.line.point

\* ------------------------------------------------------------------------
\* src/math/dependence.rs
\* ------------------------------------------------------------------------

\* enum Dimension
Dimension == {"X", "Y", "Z", "None"}

\* the index of the axis X, Y or Z in a Vector
axis(dim) == IF dim = "X" THEN 1 ELSE IF dim = "Y" THEN 2 ELSE 3

\* zero_dims: for each coefficient its dimension when it is zero, else None
zero_dims(x_coefficient, y_coefficient, z_coefficient) ==
    <<IF x_coefficient = Zero THEN "X" ELSE "None",
      IF y_coefficient = Zero THEN "Y" ELSE "None",
      IF z_coefficient = Zero THEN "Z" ELSE "None">>

\* SingleScalarDependence::new
Dep_new(target, source, source_scalar, constant) ==
    [target |-> target, source |-> source,
     source_scalar |-> source_scalar, constant |-> constant]

scalar_only_mut_swap(target, coefficient, constant) ==
    Dep_new("None", target, One, RDiv(RNeg(constant), coefficient))

\* SingleScalarDependence::scalar_only
scalar_only(target, coefficient, constant) ==
    Dep_new(target, "None", One, RDiv(RNeg(constant), coefficient))

from_coefficients_mut_sign(target, source, target_coefficient, source_coefficient, constant) ==
    Dep_new(target, source,
            RDiv(source_coefficient, target_coefficient),
            RDiv(RNeg(constant), target_coefficient))

\* SingleScalarDependence::from_coefficients
from_coefficients(target, source, target_coefficient, source_coefficient, constant) ==
    Dep_new(target, source,
            RDiv(RNeg(source_coefficient), target_coefficient),
            RDiv(RNeg(constant), target_coefficient))

\* Result<SingleScalarDependence, ()> and Option<SingleScalarDependence>
DepOk(dep) == [tag |-> "Ok", dep |-> dep]

DepErr == [tag |-> "Err"]

DepSome(dep) == [tag |-> "Some", dep |-> dep]

DepNone == [tag |-> "None"]

\* SingleScalarDependence::compute
Dep_compute(eq) ==
    LET zeros == zero_dims(eq[1], eq[2], eq[3])
        x == zeros[1] = "X"
        y == zeros[2] = "Y"
        z == zeros[3] = "Z"
    IN  IF x /\ y /\ z THEN Panic("All 3 coefficients are 0")
        ELSE IF x /\ y THEN DepOk(scalar_only("Z", eq[3], eq[4]))
        ELSE IF x /\ z THEN DepOk(scalar_only("Y", eq[2], eq[4]))
        ELSE IF y /\ z THEN DepOk(scalar_only("X", eq[1], eq[4]))
        ELSE IF x THEN DepOk(from_coefficients("Z", "Y", eq[3], eq[2], eq[4]))
        ELSE IF y THEN DepOk(from_coefficients("Z", "X", eq[3], eq[1], eq[4]))
        ELSE IF z THEN DepOk(from_coefficients("Y", "X", eq[2], eq[1], eq[4]))
        ELSE DepErr

\* SingleScalarDependence::calc_substituted_values
calc_substituted_values(self, source_coefficient, target_coefficient, constant) ==
    <<RAdd(source_coefficient, RMul(self.source_scalar, target_coefficient)),
      RAdd(constant, RMul(self.constant, target_coefficient))>>

\* SingleScalarDependence::subsitute; each row of the match is <<the
\* arguments of calc_substituted_values (source and target coefficient), the
\* arguments of from_coefficients (target, source, target coefficient, source
\* coefficient), whether the source coefficient is the substituted one>>
subsitute(self, eq) ==
    LET st == <<self.source, self.target>>
        row == IF st = <<"X", "Z">> THEN <<eq[1], eq[3], "Y", "X", eq[2], Zero, TRUE>>
               ELSE IF st = <<"X", "Y">> THEN <<eq[1], eq[2], "Z", "X", eq[3], Zero, TRUE>>
               ELSE IF st = <<"Y", "Z">> THEN <<eq[2], eq[3], "X", "Y", eq[1], Zero, TRUE>>
               ELSE IF st = <<"None", "X">> THEN <<One, eq[1], "Z", "Y", eq[3], eq[2], FALSE>>
               ELSE IF st = <<"None", "Y">> THEN <<One, eq[2], "Z", "X", eq[3], eq[2], FALSE>>
               ELSE IF st = <<"None", "Z">> THEN <<One, eq[3], "Y", "X", eq[2], eq[1], FALSE>>
               ELSE <<>>
    IN  IF Len(row) = 0
        THEN Panic("These are the only options provided! This should never panic!")
        ELSE LET values == calc_substituted_values(self, row[1], row[2], eq[4])
                 source_coefficient == IF row[7] THEN values[1] ELSE row[6]
             IN  DepOk(from_coefficients(row[3], row[4], row[5],
                                         source_coefficient, values[2]))

\* SingleScalarDependence::substitute_in
substitute_in(self, eq) ==
    LET computed == Dep_compute(eq)
        result == IF computed.tag = "Err" THEN subsitute(self, eq) ELSE computed
    IN  IF result.tag = "Panic" THEN result
        ELSE IF result.dep.source = self.source /\ result.dep.target = self.target
        THEN DepNone
        ELSE DepSome(result.dep)

\* SingleScalarDependence::compute_from_full_equations
compute_from_full_equations(eq1, eq2) ==
    LET multiplier == RDiv(eq1[1], eq2[1])
        scaled == [i \in 2..4 |-> RMul(eq2[i], multiplier)]
    IN  from_coefficients("Z", "Y", RSub(eq1[3], scaled[3]),
                          RSub(eq1[2], scaled[2]), RSub(eq1[4], scaled[4]))

\* SingleScalarDependence::compute_from
compute_from(eq1, eq2) ==
    IF is_lindep(Vector(eq1[1], eq1[2], eq1[3]), Vector(eq2[1], eq2[2], eq2[3]))
    THEN Panic("Equations cannot form a single dependency")
    ELSE LET first == Dep_compute(eq1)
             second == IF first.tag = "Err" THEN Dep_compute(eq2) ELSE first
         IN  IF second.tag = "Err"
             THEN DepOk(compute_from_full_equations(eq1, eq2))
             ELSE second

\* SingleScalarDependence::put
put(self, value) ==
    IF self.source = "None"
    THEN self.constant
    ELSE RAdd(RMul(self.source_scalar, value), self.constant)

\* HashMap::insert on a map kept as a set of <<key, value>> pairs
insert(map, key, value) == {e \in map : e[1] # key} \cup {<<key, value>>}

\* HashMap::get(dim), or get(Dimension::None) when dim has no entry; the
\* unwrap of a missing None entry panics
get_or_none(map, dim) ==
    LET key == IF \E e \in map : e[1] = dim THEN dim ELSE "None"
    IN  IF \E e \in map : e[1] = key
        THEN (CHOOSE e \in map : e[1] = key)[2]
        ELSE Panic("called Option::unwrap on a None value")

\* SingleScalarDependence::put_multiple
put_multiple(dep1, dep2, value) ==
    IF dep1.source # "None" /\ dep2.source # "None" /\ dep1.source # dep2.source
    THEN Panic("The two dependencies have different sources")
    ELSE LET source == IF dep1.source = "None" THEN dep2.source ELSE dep1.source
             value_map == insert(insert(insert({}, source, value),
                                        dep1.source, put(dep1, value)),
                                 dep2.source, put(dep2, value))
         IN  IF Cardinality(value_map) # 3
             THEN Panic("Could not assemble a point")
             ELSE [tag |-> "Vector",
                   val |-> [i \in 1..3 |->
                              get_or_none(value_map, <<"X", "Y", "Z">>[i])]]

\* ------------------------------------------------------------------------
\* Behaviours of the dependency algebra: two plane equations are chosen; a
\* dependency is computed from them, substituted into one of them up to two
\* times, and the last two dependencies are put into a point
\* ------------------------------------------------------------------------

\* the coefficients of x, y, z range over -MaxDep..MaxDep, the constant over
\* 0..MaxDep
MaxDep == 1

Coef4 ==
    {<<Rat(a), Rat(b), Rat(c), Rat(d)>> :
        a \in (0 - MaxDep)..MaxDep, b \in (0 - MaxDep)..MaxDep,
        c \in (0 - MaxDep)..MaxDep, d \in 0..MaxDep}

\* no dependency yet
NoDep == [target |-> "None", source |-> "None", source_scalar |-> Zero, constant |-> Zero]

\* the values put into the dependencies
Values == {Zero, One}

\* no field of the dependency is an infinity or a NaN
Finite(dep) == dep.source_scalar[2] # 0 /\ dep.constant[2] # 0

InitDependence ==
    /\ op = "start"
    /\ args \in [kind : {"equations"}, eq1 : Coef4, eq2 : Coef4,
                 self : {NoDep}, eq : {<<>>}, other : {NoDep}, value : {Zero}]
    /\ out = [tag |-> "Pending"]

DepCompute ==
    /\ op = "start"
    /\ args.kind = "equations"
    /\ op' = "dep_compute"
    /\ out' = Dep_compute(args.eq1)
    /\ UNCHANGED args

ComputeFrom ==
    /\ op = "start"
    /\ args.kind = "equations"
    /\ op' = "compute_from"
    /\ out' = compute_from(args.eq1, args.eq2)
    /\ UNCHANGED args

\* self.substitute_in(eq) for the dependency self returned last, when it is
\* finite, and eq one of the two equations
SubstituteIn ==
    /\ op \in {"dep_compute", "compute_from", "substitute_in"}
    /\ out.tag \in {"Ok", "Some"}
    /\ Finite(out.dep)
    /\ \E eq \in {args.eq1, args.eq2} :
          /\ args' = [args EXCEPT !.self = out.dep, !.eq = eq]
          /\ out' = substitute_in(out.dep, eq)
    /\ op' = IF op = "substitute_in" THEN "substitute_again" ELSE "substitute_in"

\* put_multiple(self, other, value) for self and the dependency other that
\* self.substitute_in returned
PutMultiple ==
    /\ op \in {"substitute_in", "substitute_again"}
    /\ out.tag = "Some"
    /\ Finite(out.dep)
    /\ \E value \in Values :
          /\ args' = [args EXCEPT !.other = out.dep, !.value = value]
          /\ out' = put_multiple(args.self, out.dep, value)
    /\ op' = "put_multiple"

NextDependence == DepCompute \/ ComputeFrom \/ SubstituteIn \/ PutMultiple

SpecDependence == InitDependence /\ [][NextDependence]_vars

\* ------------------------------------------------------------------------
\* Claims about the dependency algebra
\* ------------------------------------------------------------------------

\* the relation of the dependency as an equation: -target + source_scalar *
\* source + constant = 0, or -target + constant = 0 when source is None
DepEquation(dep) ==
    [i \in 1..4 |->
        IF i = 4 THEN dep.constant
        ELSE IF i = axis(dep.target) THEN Rat(0 - 1)
        ELSE IF dep.source # "None" /\ i = axis(dep.source) THEN dep.source_scalar
        ELSE Zero]

\* the points with integer coordinates in -2..2
Grid == {Vector(Rat(x), Rat(y), Rat(z)) : x \in (0 - 2)..2, y \in (0 - 2)..2, z \in (0 - 2)..2}

\* the point satisfies a*x + b*y + c*z + d = 0
OnEq(eq, pt) == RAdd(Dot(Vector(eq[1], eq[2], eq[3]), pt), eq[4]) = Zero

\* the relation of the dependency holds at the point
DepHolds(dep, pt) ==
    /\ Finite(dep)
    /\ pt[axis(dep.target)] =
          IF dep.source = "None" THEN dep.constant
          ELSE RAdd(RMul(dep.source_scalar, pt[axis(dep.source)]), dep.constant)

\* the target and source of the elimination-priority table
TableRow(eq) ==
    LET a == eq[1] = Zero
        b == eq[2] = Zero
        c == eq[3] = Zero
    IN  IF a /\ b THEN <<"Z", "None">>
        ELSE IF a /\ c THEN <<"Y", "None">>
        ELSE IF b /\ c THEN <<"X", "None">>
        ELSE IF a THEN <<"Z", "Y">>
        ELSE IF b THEN <<"Z", "X">>
        ELSE <<"Y", "X">>

\* C14: SingleScalarDependence::compute follows the elimination-priority
\* table (all coefficients zero: panic; none zero: Err), and in every Ok case
\* the returned relation holds for exactly the points of a*x+b*y+c*z+d = 0.
C14_ComputeTable ==
    op = "dep_compute" =>
        LET eq == args.eq1
            zeros == {i \in 1..3 : eq[i] = Zero}
        IN  /\ (out.tag = "Panic") <=> (zeros = 1..3)
            /\ (out.tag = "Err") <=> (zeros = {})
            /\ out.tag = "Ok" =>
                  /\ <<out.dep.target, out.dep.source>> = TableRow(eq)
                  /\ Finite(out.dep)
                  /\ SameSolutions(DepEquation(out.dep), eq)
                  /\ \A pt \in Grid : DepHolds(out.dep, pt) <=> OnEq(eq, pt)

\* Y was expressed in X with a non-zero constant
C14_Witness ==
    /\ op = "dep_compute"
    /\ out.tag = "Ok"
    /\ out.dep.target = "Y"
    /\ out.dep.source = "X"
    /\ out.dep.constant # Zero

\* C15: whenever self.substitute_in(a, b, c, d) returns a dependency, it
\* holds at every point that satisfies both self and a*x+b*y+c*z+d = 0, for
\* every form of self.
C15_SubstituteHolds ==
    (op \in {"substitute_in", "substitute_again"} /\ out.tag = "Some") =>
        \A pt \in Grid :
            (DepHolds(args.self, pt) /\ OnEq(args.eq, pt)) => DepHolds(out.dep, pt)

\* C16: for two equations with linearly independent coefficient vectors
\* compute_from returns a dependency without a division by zero that holds at
\* every point satisfying both equations: compute(eq1) if that succeeds, else
\* compute(eq2); for linearly dependent coefficient vectors it fails.
C16_ComputeFrom ==
    op = "compute_from" =>
        LET eq1 == args.eq1
            eq2 == args.eq2
        IN  IF Dependent(Vector(eq1[1], eq1[2], eq1[3]), Vector(eq2[1], eq2[2], eq2[3]))
            THEN out.tag = "Panic"
            ELSE /\ out.tag = "Ok"
                 /\ Finite(out.dep)
                 /\ \A pt \in Grid :
                       (OnEq(eq1, pt) /\ OnEq(eq2, pt)) => DepHolds(out.dep, pt)
                 /\ Dep_compute(eq1).tag = "Ok" => out = Dep_compute(eq1)
                 /\ (Dep_compute(eq1).tag = "Err" /\ Dep_compute(eq2).tag = "Ok") =>
                       out = Dep_compute(eq2)

\* C17: for two dependencies with a common source axis (or one source None)
\* and distinct targets that cover X, Y, Z together with the source,
\* put_multiple returns the point with the value at the source and the two
\* put results at the targets; it fails only for other pairs.
C17_PutMultiple ==
    op = "put_multiple" =>
        LET dep1 == args.self
            dep2 == args.other
            compatible == \/ dep1.source = dep2.source
                          \/ dep1.source = "None"
                          \/ dep2.source = "None"
            source == IF dep1.source = "None" THEN dep2.source ELSE dep1.source
            covering == /\ compatible
                        /\ {source, dep1.target, dep2.target} = {"X", "Y", "Z"}
        IN  /\ covering =>
                  /\ out.tag = "Vector"
                  /\ out.val[axis(source)] = args.value
                  /\ out.val[axis(dep1.target)] = put(dep1, args.value)
                  /\ out.val[axis(dep2.target)] = put(dep2, args.value)
            /\ out.tag = "Panic" => ~covering

\* C20: every dependency returned by compute, compute_from or substitute_in
\* has a target other than its source and other than Dimension::None.
C20_TargetNotSource ==
    (/\ op \in {"dep_compute", "compute_from", "substitute_in", "substitute_again"}
     /\ out.tag \in {"Ok", "Some"}) =>
        out.dep.target \notin {out.dep.source, "None"}

\* substitute_in, applied to a dependency that substitute_in returned,
\* returned X in terms of Y
C20_Witness ==
    /\ op = "substitute_again"
    /\ out.tag = "Some"
    /\ out.dep.target = "X"
    /\ out.dep.source = "Y"

\* ------------------------------------------------------------------------
\* Claims about the distance of planes and the plane of two directions
\* ------------------------------------------------------------------------

\* C18: for two planes with linearly dependent plumbs distance_between(p1, p2)
\* equals p1.distance_from(q) for every point q of p2, whatever the scalar
\* factor between the plumbs, and equals distance_between(p2, p1); for
\* independent plumbs it fails.
C18_DistanceBetween ==
    op = "distance_between" =>
        LET p1 == args.plain1
            p2 == args.plain2
        IN  IF Dependent(p1.plumb, p2.plumb)
            THEN /\ out.tag = "Dist"
                 /\ \A q \in Grid :
                       contains_point(p2, q) => distance_from(p1, q).sq = out.sq
                 /\ distance_between(p2, p1) = out
            ELSE out.tag = "Panic"

\* C19: for linearly independent directions d1, d2 Plain::new(o, d1, d2) has
\* plumb = cross(d1, d2) and contains o + s*d1 + t*d2 for all s, t; for
\* linearly dependent d1, d2 the construction fails.
C19_PlainNew ==
    op = "new" =>
        LET o == args.v1
            d1 == args.v2
            d2 == args.v3
        IN  IF Dependent(d1, d2)
            THEN out.tag = "Panic"
            ELSE /\ out.tag = "Plain"
                 /\ out.plumb = vectoric_product(d1, d2)
                 /\ \A s \in (0 - 2)..2, t \in (0 - 2)..2 :
                       contains_point(out, VAdd(o, VAdd(Scale(Rat(s), d1),
                                                        Scale(Rat(t), d2))))

\* ------------------------------------------------------------------------
\* Claims about the failure of substitute_in
\* ------------------------------------------------------------------------

\* C21: for self = compute(eq1), self.substitute_in(eq2) returns no
\* dependency only when eq2 is equivalent to eq1, and returns a dependency
\* whenever the coefficient vector of eq2 is linearly independent of eq1's.
C21_NoneOnlyIfEquivalent ==
    LET eq1 == args.eq1
        eq2 == args.eq2
        derived == Dep_compute(eq1)
    IN  (/\ op = "substitute_in"
         /\ derived.tag = "Ok"
         /\ args.self = derived.dep
         /\ args.eq = eq2) =>
            /\ out.tag = "None" => SameSolutions(eq1, eq2)
            /\ ~Dependent(Vector(eq1[1], eq1[2], eq1[3]), Vector(eq2[1], eq2[2], eq2[3])) =>
                  out.tag = "Some"

\* ------------------------------------------------------------------------
\* Behaviours of the point queries on a line: a line (of any direction) and
\* a point are chosen, then the distance or the containment is computed, for
\* the point chosen or for a point placed along the line
\* ------------------------------------------------------------------------

\* the scalars n/2 for n in -4..4
Scalars == {Norm(n, 2) : n \in (0 - 4)..4}

InitPoint ==
    /\ op = "start"
    /\ args \in [kind : {"linepoint"}, line : AllLines, point : Points, k : {Zero}]
    /\ out = [tag |-> "Pending"]

DistanceFromPoint ==
    /\ op = "start"
    /\ args.kind = "linepoint"
    /\ op' = "distance_from_point"
    /\ out' = distance_from_point(args.line, args.point)
    /\ UNCHANGED args

IsOnLine ==
    /\ op = "start"
    /\ args.kind = "linepoint"
    /\ op' = "is_on_line"
    /\ out' = is_on_line(args.line, args.point)
    /\ UNCHANGED args

\* is_on_line(line.point + k * line.direction)
IsOnLineAlong ==
    /\ op = "start"
    /\ args.kind = "linepoint"
    /\ op' = "is_on_line_along"
    /\ \E k \in Scalars :
          LET point == VAdd(args.line.point, Scale(k, args.line.direction))
          IN  /\ args' = [args EXCEPT !.point = point, !.k = k]
              /\ out' = is_on_line(args.line, point)

NextPoint == DistanceFromPoint \/ IsOnLine \/ IsOnLineAlong

SpecPoint == InitPoint /\ [][NextPoint]_vars

\* C22: for every line with a non-zero direction and every point the panic
\* branch of Line::distance_from_point is not taken, and
\* is_on_line(line.point + k * line.direction) is true for every scalar k.
C22_NoPanicOnLine ==
    (/\ op \in {"distance_from_point", "is_on_line", "is_on_line_along"}
     /\ args.line.direction # ZeroVector) =>
        /\ out.tag # "Panic"
        /\ op = "is_on_line_along" => out = [tag |-> "Bool", val |-> TRUE]

\* a point half a direction away from line.point was found on the line
C22_Witness ==
    /\ op = "is_on_line_along"
    /\ args.k = Norm(1, 2)
    /\ args.line.direction # ZeroVector
    /\ args.point # args.line.point
    /\ out = [tag |-> "Bool", val |-> TRUE]

\* ------------------------------------------------------------------------
\* Behaviours of the equality relations: three pairs of numbers are chosen;
\* a ratio or a solution is computed from each, and the results are compared
\* ------------------------------------------------------------------------

\* the pairs (x, y) of a ratio x / y and (a, b) of an equation a*x + b = 0
Pairs == {<<Rat(x), Rat(y)>> : x \in Coef, y \in Coef}

InitEquality ==
    /\ op = "start"
    /\ args \in [kind : {"pairs"}, p : [1..3 -> Pairs]]
    /\ out = [tag |-> "Pending"]

RatioCompute ==
    /\ op = "start"
    /\ args.kind = "pairs"
    /\ op' = "ratio_compute"
    /\ out' = Ratio_compute(args.p[1][1], args.p[1][2])
    /\ UNCHANGED args

\* r[i] == r[j] for the ratios of the three pairs
RatioEq ==
    /\ op = "start"
    /\ args.kind = "pairs"
    /\ op' = "ratio_eq"
    /\ LET r == [i \in 1..3 |-> Ratio_compute(args.p[i][1], args.p[i][2])]
       IN  out' = [tag |-> "Eq", r |-> r,
                   eq |-> [i \in 1..3 |-> [j \in 1..3 |-> Ratio_eq(r[i], r[j])]]]
    /\ UNCHANGED args

\* compute of both copies of the solver on the first pair
SolutionCompute ==
    /\ op = "start"
    /\ args.kind = "pairs"
    /\ op' = "solution_compute"
    /\ out' = [tag |-> "Both",
               math |-> compute(args.p[1][1], args.p[1][2]),
               top |-> equation_compute(args.p[1][1], args.p[1][2])]
    /\ UNCHANGED args

\* s[i] == s[j] for the solutions of the three pairs, in both copies
SolutionEq ==
    /\ op = "start"
    /\ args.kind = "pairs"
    /\ op' = "solution_eq"
    /\ LET s == [i \in 1..3 |-> compute(args.p[i][1], args.p[i][2])]
           t == [i \in 1..3 |-> equation_compute(args.p[i][1], args.p[i][2])]
       IN  out' = [tag |-> "Eq", s |-> s,
                   eq |-> [i \in 1..3 |-> [j \in 1..3 |-> EquationSolution_eq(s[i], s[j])]],
                   eq_top |-> [i \in 1..3 |-> [j \in 1..3 |-> equation_eq(t[i], t[j])]]]
    /\ UNCHANGED args

NextEquality == RatioCompute \/ RatioEq \/ SolutionCompute \/ SolutionEq

SpecEquality == InitEquality /\ [][NextEquality]_vars

\* C23: Ratio::compute(x, y) is Zeros iff x = y = 0, Invalid iff exactly one
\* of x, y is 0, and Real(x / y) otherwise; Ratio equality is symmetric,
\* Invalid equals nothing (not even itself), Zeros equals every ratio that is
\* not Invalid, and Real(x) equals Real(y) iff x = y.
C23_RatioEquality ==
    /\ op = "ratio_compute" =>
          LET x == args.p[1][1]
              y == args.p[1][2]
          IN  /\ (out.tag = "Zeros") <=> (x = Zero /\ y = Zero)
              /\ (out.tag = "Invalid") <=> ((x = Zero) # (y = Zero))
              /\ (out.tag = "Real") <=> (x # Zero /\ y # Zero)
              /\ out.tag = "Real" => RMul(out.val, y) = x
    /\ op = "ratio_eq" =>
          \A i \in 1..3, j \in 1..3 :
              LET a == out.r[i]
                  b == out.r[j]
              IN  /\ out.eq[i][j] = out.eq[j][i]
                  /\ a.tag = "Invalid" => ~out.eq[i][j]
                  /\ (a.tag = "Zeros" /\ b.tag # "Invalid") => out.eq[i][j]
                  /\ (a.tag = "Real" /\ b.tag = "Real") =>
                        (out.eq[i][j] <=> (a.val = b.val))

\* the relation is not transitive: a Real ratio equals Zeros, Zeros equals
\* another Real ratio, and the two Real ratios differ
C23_Witness ==
    /\ op = "ratio_eq"
    /\ out.r[2].tag = "Zeros"
    /\ out.eq[1][2]
    /\ out.eq[2][3]
    /\ ~out.eq[1][3]

\* C24: in EquationSolution equality None equals nothing, Undefined equals
\* every solution (Undefined or Real), and Real(a) equals Real(b) iff a = b;
\* compute and the equality of src/equation.rs and src/math/equation.rs
\* agree on every input.
C24_SolutionEquality ==
    /\ op = "solution_compute" => out.math = out.top
    /\ op = "solution_eq" =>
          /\ out.eq = out.eq_top
          /\ \A i \in 1..3, j \in 1..3 :
                LET a == out.s[i]
                    b == out.s[j]
                IN  /\ a.tag = "None" => (~out.eq[i][j] /\ ~out.eq[j][i])
                    /\ (a.tag = "Undefined" /\ b.tag # "None") =>
                          (out.eq[i][j] /\ out.eq[j][i])
                    /\ (a.tag = "Real" /\ b.tag = "Real") =>
                          (out.eq[i][j] <=> (a.val = b.val))

\* Undefined was found equal to a Real solution and unequal to None
C24_Witness ==
    /\ op = "solution_eq"
    /\ out.s[1].tag = "Undefined"
    /\ out.s[2].tag = "Real"
    /\ out.s[3].tag = "None"
    /\ out.eq[1][2]
    /\ ~out.eq[1][3]

\* ------------------------------------------------------------------------
\* Behaviours of the vector products: two vectors are chosen, then one
\* product is computed
\* ------------------------------------------------------------------------

DotProduct ==
    /\ op = "start"
    /\ op' = "mul"
    /\ out' = Dot(args.u, args.v)
    /\ UNCHANGED args

VectoricProduct ==
    /\ op = "start"
    /\ op' = "vectoric_product"
    /\ out' = vectoric_product(args.u, args.v)
    /\ UNCHANGED args

NextProduct == DotProduct \/ VectoricProduct

SpecProduct == InitVector /\ [][NextProduct]_vars

\* C25: u * v = v * u, vectoric_product(u, v) = -1 * vectoric_product(v, u),
\* and the dot product of vectoric_product(u, v) with u and with v is 0.
C25_ProductIdentities ==
    /\ op = "mul" => out = Dot(args.v, args.u)
    /\ op = "vectoric_product" =>
          /\ out = Scale(Rat(0 - 1), vectoric_product(args.v, args.u))
          /\ Dot(out, args.u) = Zero
          /\ Dot(out, args.v) = Zero

\* a non-zero product of two vectors without a zero component
C25_Witness ==
    /\ op = "vectoric_product"
    /\ \A i \in 1..3 : args.u[i] # Zero /\ args.v[i] # Zero /\ out[i] # Zero

\* C26: u / v returns Ok(r) only if u = r * v with r # 0, returns Err
\* whenever u and v are not linearly dependent, and is_lindep(u, v) =
\* is_lindep(v, u).
C26_VectorDivision ==
    /\ op = "div" =>
          /\ out.tag = "Ok" => (out.val # Zero /\ args.u = Scale(out.val, args.v))
          /\ ~Dependent(args.u, args.v) => out.tag = "Err"
    /\ op = "is_lindep" => out.val = is_lindep(args.v, args.u)

\* a quotient found for vectors with a common zero component
C26_Witness ==
    /\ op = "div"
    /\ out.tag = "Ok"
    /\ out.val \notin {One, Rat(0 - 1)}
    /\ args.u[1] = Zero
    /\ args.u[2] # Zero
    /\ args.u[3] # Zero

\* C27: whenever Line::intersection returns Some(p), p lies on both lines,
\* and so does the point of an Intersect result of LineRelations::of.
C27_IntersectionOnBothLines ==
    /\ (op = "intersection" /\ out.tag = "Some") =>
          (OnLine(args.line1, out.val) /\ OnLine(args.line2, out.val))
    /\ (op = "of" /\ out.tag = "Intersect") =>
          (OnLine(args.line1, out.point) /\ OnLine(args.line2, out.point))

\* an intersection point returned for two lines of different directions
C27_Witness ==
    /\ op = "intersection"
    /\ out.tag = "Some"
    /\ ~Dependent(args.line1.direction, args.line2.direction)
    /\ args.line1.point # ZeroVector

====
